---- MODULE Spec2Model ----
(***************************************************************************)
(* A model of bot.py: the paginated fetch of vacancies (get_vacancies),    *)
(* the per-chat deduplication and aggregation state (user_sent_vacancies,  *)
(* user_daily_vacancies), the batched delivery job (send_vacancies) with   *)
(* its retrying sender (send_message_with_retry), and the on-demand        *)
(* summary (daily_summary_command).                                        *)
(*                                                                         *)
(* A text is modelled by its length and a slice of it by its pair of       *)
(* offsets <<lo, hi>> (the characters lo .. hi-1), as Python's s[lo:hi].   *)
(* A dict is modelled as the sequence of its (key, value) entries in       *)
(* insertion order, which is the order a Python dict iterates in.          *)
(***************************************************************************)
EXTENDS Integers, Sequences, FiniteSets, TLC

\* ------------------------------------------------------------ constants

\* VACANCY_LIMIT = 2000
VACANCY_LIMIT == 2000

\* the literal 99 of `len(items) < 99`
PageFull == 99

\* the step of range(0, len(unique_vacancies), 5) and of the slice [i:i + 5]
BatchStep == 5

\* asyncio.sleep(2) between two batches
BatchDelay == 2

\* chunk_size = 4000
chunk_size == 4000

\* len() of the summary header, of the "no vacancies" line and of the fixed
\* part of one employer line ("\U0001F3E2 " + ": " + " вакансий" + "\n")
HeaderLen == 61
EmptyLineLen == 25
LineFixedLen == 14

\* ------------------------------------------------------------ bounds

\* the largest page of a fetch of the fetcher's own specification
BigPage == 1000

\* the sends of one message are counted up to MaxTries
MaxTries == 3

\* the largest cooldown a rate-limit failure carries
MaxRetryAfter == 3

\* the listings of the source of the delivery specifications: ids 1..NumIds
NumIds == 3

\* the listings of the source of the batching specification: ids 1..LongIds
LongIds == 11

\* the longest summary text of the splitting specification
MaxSummaryLen == 8500

\* the largest salary bound of the formatting specification
MaxSalary == 7

\* ------------------------------------------------------------ helpers

Min(a, b) == IF a <= b THEN a ELSE b

\* Python's range(start, stop, step) for step > 0, as a sequence
RECURSIVE Range(_, _, _)
Range(start, stop, step) ==
    IF start >= stop THEN <<>>
    ELSE <<start>> \o Range(start + step, stop, step)

\* Python's seq[lo:hi] for 0 <= lo (0-based, hi exclusive, clamped at the end)
Slice(seq, lo, hi) == SubSeq(seq, lo + 1, Min(hi, Len(seq)))

\* ------------------------------------------------------------ state

VARIABLES
    \* get_vacancies, step by step
    f_pc,          \* "idle", "loop" (about to request `page`), "returned", "raised"
    page,          \* the local `page`
    vacancies,     \* the local `vacancies`
    fetched,       \* what get_vacancies returned
    requests,      \* history: <<page, kind, size>> of every request made
    \* the module's two dicts, each a function on the chats it has a key for
    user_sent_vacancies,
    user_daily_vacancies,
    \* send_vacancies: per job of the queue, the chat it is bound to, where
    \* its running invocation stands, and that invocation's locals
    jobs,
    \* history of a job's running invocation (see NoHist)
    hist,
    \* the update handler being run (updates are handled one at a time) and
    \* the locals of daily_summary_command
    handler,
    \* history: <<chunk index, delivered>> of every send of the summary
    h_log,
    \* history: per chat, the companies in the order of their first recording
    first_recorded,
    \* history: per chat, the ids that were in its set when some invocation of
    \* send_vacancies for it started
    seen_at_start,
    \* history: per chat, the ids of the listings collected by the
    \* invocations of send_vacancies that have ended after reaching their
    \* sends (the listings of their batches, whether sent, given up or never
    \* offered to send_message_with_retry)
    offered

fvars == <<f_pc, page, vacancies, fetched, requests>>

store == <<user_sent_vacancies, user_daily_vacancies>>

ghosts == <<first_recorded, seen_at_start, offered>>

dvars == <<user_sent_vacancies, user_daily_vacancies, jobs, hist, handler,
           h_log, first_recorded, seen_at_start, offered>>

vars == <<f_pc, page, vacancies, fetched, requests, user_sent_vacancies,
          user_daily_vacancies, jobs, hist, handler, h_log, first_recorded,
          seen_at_start, offered>>

\* ------------------------------------------------------------ get_vacancies

\* A response to one page request: a transport failure
\* (requests.exceptions.RequestException from get or raise_for_status), a
\* 2xx answer whose body response.json() cannot read (line 62 is outside the
\* try), or a 2xx answer whose JSON holds `items`.
TransportFailure == [kind |-> "transport", items |-> <<>>]
BrokenBody == [kind |-> "broken", items |-> <<>>]
PageOf(items) == [kind |-> "ok", items |-> items]

\* an iteration whose except clause returns an empty list instead of
\* leaving the loop
FetchStepForgets(st, resp) ==
    IF resp.kind = "transport"
    THEN [page |-> st.page, vacancies |-> <<>>, left |-> TRUE, raised |-> FALSE]
    ELSE IF resp.kind = "broken"
    THEN [page |-> st.page, vacancies |-> st.vacancies, left |-> TRUE, raised |-> TRUE]
    ELSE LET v == st.vacancies \o resp.items
         IN  IF Len(resp.items) < PageFull \/ Len(v) >= VACANCY_LIMIT
             THEN [page |-> st.page, vacancies |-> v, left |-> TRUE, raised |-> FALSE]
             ELSE [page |-> st.page + 1, vacancies |-> v, left |-> FALSE, raised |-> FALSE]

\* an iteration that takes a page of exactly 99 items for the last one
FetchStepFullStops(st, resp) ==
    IF resp.kind = "transport"
    THEN [page |-> st.page, vacancies |-> st.vacancies, left |-> TRUE, raised |-> FALSE]
    ELSE IF resp.kind = "broken"
    THEN [page |-> st.page, vacancies |-> st.vacancies, left |-> TRUE, raised |-> TRUE]
    ELSE LET v == st.vacancies \o resp.items
         IN  IF Len(resp.items) <= PageFull \/ Len(v) >= VACANCY_LIMIT
             THEN [page |-> st.page, vacancies |-> v, left |-> TRUE, raised |-> FALSE]
             ELSE [page |-> st.page + 1, vacancies |-> v, left |-> FALSE, raised |-> FALSE]

\* One iteration of the `while True` loop, from the locals st = [page,
\* vacancies] and the response to the request of st.page: the locals after
\* it, whether the loop was left (break), and whether an exception left
\* the function.
FetchStep(st, resp) ==
    IF resp.kind = "transport"
    THEN [page |-> st.page, vacancies |-> st.vacancies, left |-> TRUE, raised |-> FALSE]
    ELSE IF resp.kind = "broken"
    THEN [page |-> st.page, vacancies |-> st.vacancies, left |-> TRUE, raised |-> TRUE]
    ELSE LET v == st.vacancies \o resp.items
         IN  IF Len(resp.items) < PageFull \/ Len(v) >= VACANCY_LIMIT
             THEN [page |-> st.page, vacancies |-> v, left |-> TRUE, raised |-> FALSE]
             ELSE [page |-> st.page + 1, vacancies |-> v, left |-> FALSE, raised |-> FALSE]

\* a return of the whole list, without the cut
FetchReturnAll(v) == v

\* return vacancies[:VACANCY_LIMIT]
FetchReturn(v) == Slice(v, 0, VACANCY_LIMIT)

\* The items of page p of a source that serves n items there: item k of
\* page p is <<p, k>>.
ItemsOfPage(p, n) == [k \in 1..n |-> <<p, k>>]

\* The page sizes the modelled source may answer with: empty, short, one
\* below full, full, large, and the whole limit and beyond.
PageSizes == {0, 1, PageFull - 1, PageFull, BigPage,
              VACANCY_LIMIT, VACANCY_LIMIT + PageFull}

Responses(p) ==
    {TransportFailure, BrokenBody} \cup {PageOf(ItemsOfPage(p, n)) : n \in PageSizes}

\* get_vacancies is entered: vacancies = [], page = 0
FetchCall ==
    /\ f_pc \in {"idle", "returned", "raised"}
    /\ f_pc' = "loop"
    /\ page' = 0
    /\ vacancies' = <<>>
    /\ fetched' = <<>>
    /\ requests' = <<>>
    /\ UNCHANGED dvars

\* one iteration of the loop: the request of `page` and what follows it
FetchPage ==
    /\ f_pc = "loop"
    /\ \E resp \in Responses(page) :
         LET st == FetchStep([page |-> page, vacancies |-> vacancies], resp)
         IN  /\ requests' = Append(requests, <<page, resp.kind, Len(resp.items)>>)
             /\ page' = st.page
             /\ vacancies' = st.vacancies
             /\ IF st.raised
                THEN /\ f_pc' = "raised"
                     /\ fetched' = fetched
                ELSE IF st.left
                THEN /\ f_pc' = "returned"
                     /\ fetched' = FetchReturn(st.vacancies)
                ELSE /\ f_pc' = "loop"
                     /\ fetched' = fetched
    /\ UNCHANGED dvars

\* ------------------------------------------------------------ listings

Chats == {"c1", "c2"}

\* the job queue's entries: run_repeating adds one per /start
Jobs == {"j1", "j2"}
NoChat == "none"

\* A listing as far as send_vacancies reads it: v['id'] (NoId: the key is
\* missing) and v.get('employer', {}).get('name', ...): a name, the key
\* missing (EmployerAbsent), or "employer": null (EmployerNull).
NoId == 0
EmployerAbsent == "<absent>"
EmployerNull == "<null>"
Employers == <<"A", "B">>

EmployerOf(id) == Employers[(id % Len(Employers)) + 1]
Listing(id) == [id |-> id, employer |-> EmployerOf(id)]

\* len(company) of the names above (a name is any text of the source)
NameLen(company) ==
    CASE company = "A" -> 4000
      [] company = "B" -> 4000
      [] OTHER -> 10

\* v.get('employer', {}).get('name', 'Не указано'), line 146; raises
\* AttributeError when the employer is null
DefaultCompany == "Ne ukazano"
CompanyRaises(v) == v.employer = EmployerNull
Company(v) == IF v.employer = EmployerAbsent THEN DefaultCompany ELSE v.employer

\* ------------------------------------------------------------ the state store

\* d[company] = d.get(company, 0) + 1 on a dict in insertion order
DictIncr(d, company) ==
    IF \E k \in 1..Len(d) : d[k].company = company
    THEN [k \in 1..Len(d) |->
             IF d[k].company = company
             THEN [company |-> company, count |-> d[k].count + 1]
             ELSE d[k]]
    ELSE Append(d, [company |-> company, count |-> 1])

\* one object shared by all keys: every key of the dict is set to v
DictSetAll(f, c, v) == [x \in (DOMAIN f) \cup {c} |-> v]

\* a dict with key c set to v
DictSet(f, c, v) == [x \in (DOMAIN f) \cup {c} |-> IF x = c THEN v ELSE f[x]]

RECURSIVE SumCounts(_)
SumCounts(d) == IF d = <<>> THEN 0 ELSE Head(d).count + SumCounts(Tail(d))

\* an initialisation without the test of line 134
EnsureAlways(sent, daily, c) ==
    [sent |-> DictSet(sent, c, {}), daily |-> DictSet(daily, c, <<>>)]

\* lines 134-136: both dicts are set when the chat is not in
\* user_sent_vacancies
EnsureChat(sent, daily, c) ==
    IF c \notin DOMAIN sent
    THEN [sent |-> DictSet(sent, c, {}), daily |-> DictSet(daily, c, <<>>)]
    ELSE [sent |-> sent, daily |-> daily]

\* a filter that lets every listing through
FilterNothing(vs, sentIds) == vs

\* line 142: [v for v in vacancies if v['id'] not in user_sent_vacancies[chat_id]];
\* KeyError when a listing has no id
FilterRaises(vs) == \E k \in 1..Len(vs) : vs[k].id = NoId

FilterNew(vs, sentIds) ==
    LET IsNew(v) == v.id \notin sentIds
    IN  SelectSeq(vs, IsNew)

\* lines 144-147: the recording loop over unique_vacancies, from the chat's
\* set and dict: what they are after it, and whether line 146 raised (the id
\* of that listing is then already added, line 145)
RECURSIVE RecordAll(_, _, _)
RecordAll(unique, sentIds, daily) ==
    IF unique = <<>>
    THEN [sent |-> sentIds, daily |-> daily, raised |-> FALSE]
    ELSE LET v == Head(unique)
             added == sentIds \cup {v.id}
         IN  IF CompanyRaises(v)
             THEN [sent |-> added, daily |-> daily, raised |-> TRUE]
             ELSE RecordAll(Tail(unique), added, DictIncr(daily, Company(v)))

\* The salary of a listing: the key is missing (the listing has no salary
\* field), or its value is null, or a dict whose keys 'from' and 'to' each
\* hold a number or null (SalaryNull) or are missing (SalaryAbsent).
SalaryNull == -1
SalaryAbsent == -2
NullSalary == [null |-> TRUE, from |-> SalaryAbsent, to |-> SalaryAbsent]
EmptyDict == [null |-> FALSE, from |-> SalaryAbsent, to |-> SalaryAbsent]
SalaryDict(from, to) == [null |-> FALSE, from |-> from, to |-> to]

\* the default of the two salary .get calls, 'Не указана'
SalaryPlaceholder == "Ne ukazana"

\* a value as an f-string renders it: str(None) is 'None'
Str(x) == IF x = SalaryNull THEN "None" ELSE ToString(x)

\* line 87: vacancy.get('salary', {})
SalaryOf(v) == IF "salary" \in DOMAIN v THEN v.salary ELSE EmptyDict

\* lines 88-89: salary.get(key, 'Не указана') if salary else 'Не указана';
\* None and the empty dict are false, and .get gives the default only when
\* the key is missing
SalaryText(salary, key) ==
    IF salary.null \/ salary = EmptyDict
    THEN SalaryPlaceholder
    ELSE IF salary[key] = SalaryAbsent
         THEN SalaryPlaceholder
         ELSE Str(salary[key])

\* format_vacancy as far as the listing is modelled: the listing the block
\* is about, the employer line (default 'Не указана') and the two bounds of
\* the salary line
format_vacancy(v) ==
    [of |-> v.id,
     employer |-> IF v.employer = EmployerAbsent THEN "Ne ukazana" ELSE v.employer,
     salary_from |-> SalaryText(SalaryOf(v), "from"),
     salary_to |-> SalaryText(SalaryOf(v), "to")]

\* line 151-152: batch = unique_vacancies[i:i + 5] and the message joined
\* from the formatted blocks of the batch
\* a slice one short: [i:i + 4]
BatchAtShort(unique, i) == Slice(unique, i, i + BatchStep - 1)

BatchAt(unique, i) == Slice(unique, i, i + BatchStep)
MessageOf(batch) == [k \in 1..Len(batch) |-> format_vacancy(batch[k])]

\* get_vacancies against a source whose page 0 is short or fails: one
\* iteration of the loop, then the return
get_vacancies(resp) ==
    LET st == FetchStep([page |-> 0, vacancies |-> <<>>], resp)
    IN  [raised |-> st.raised, vacancies |-> FetchReturn(st.vacancies)]

\* ------------------------------------------------------------ send errors

\* str(e) of a failed send as far as the handler reads it: whether it
\* contains "Flood control exceeded", and what follows "Retry in": nothing
\* ("none": the text is missing), a token int() rejects ("bad"), or n.
SendError(flood, token, n) == [flood |-> flood, token |-> token, n |-> n]

\* line 119: int(error_message.split("Retry in")[1].strip().split()[0])
ParseRaises(e) == e.token # "int"
ParseRetryAfter(e) == e.n

\* a sleep of the cooldown alone
BackoffExact(retry_after) == retry_after

\* line 121: asyncio.sleep(retry_after + 1)
Backoff(retry_after) == retry_after + 1

\* ------------------------------------------------------------ the summary text

\* sorted(d.items(), key=lambda item: item[1], reverse=True): a stable sort,
\* entries of equal count keep the dict's order
RECURSIVE InsertDesc(_, _)
InsertDesc(s, x) ==
    IF s = <<>> THEN <<x>>
    ELSE IF Head(s).count >= x.count
         THEN <<Head(s)>> \o InsertDesc(Tail(s), x)
         ELSE <<x>> \o s

\* the same, before the entries of equal count
RECURSIVE InsertDescBefore(_, _)
InsertDescBefore(s, x) ==
    IF s = <<>> THEN <<x>>
    ELSE IF Head(s).count > x.count
         THEN <<Head(s)>> \o InsertDescBefore(Tail(s), x)
         ELSE <<x>> \o s

RECURSIVE SortInto(_, _)
SortInto(acc, d) ==
    IF d = <<>> THEN acc ELSE SortInto(InsertDesc(acc, Head(d)), Tail(d))

RECURSIVE SortIntoBefore(_, _)
SortIntoBefore(acc, d) ==
    IF d = <<>> THEN acc ELSE SortIntoBefore(InsertDescBefore(acc, Head(d)), Tail(d))

\* as sorted(...) of an ascending sort read backwards: ties come out reversed
SortedReversedTies(d) == SortIntoBefore(<<>>, d)

SortedVacancies(d) == SortInto(<<>>, d)

\* len(str(count))
RECURSIVE Digits(_)
Digits(n) == IF n < 10 THEN 1 ELSE 1 + Digits(n \div 10)

\* len(summary) after lines 170-179
RECURSIVE LinesLen(_)
LinesLen(sv) ==
    IF sv = <<>> THEN 0
    ELSE NameLen(Head(sv).company) + Digits(Head(sv).count) + LineFixedLen
         + LinesLen(Tail(sv))

SummaryLen(sv) ==
    HeaderLen + (IF sv = <<>> THEN EmptyLineLen ELSE LinesLen(sv))

\* a split into whole chunks only, the rest of the text left out
SummaryChunksWhole(len) ==
    LET r == Range(0, len - chunk_size + 1, chunk_size)
    IN  [k \in 1..Len(r) |-> <<r[k], Min(r[k] + chunk_size, len)>>]

\* line 183: [summary[i:i + chunk_size] for i in range(0, len(summary), chunk_size)]
SummaryChunks(len) ==
    LET r == Range(0, len, chunk_size)
    IN  [k \in 1..Len(r) |-> <<r[k], Min(r[k] + chunk_size, len)>>]

\* ------------------------------------------------------------ send_vacancies

\* a job that is not running: no locals
IdleJob(c) ==
    [chat_id |-> c, pc |-> "idle", unique_vacancies |-> <<>>, todo |-> <<>>,
     i |-> 0, message |-> <<>>, retry_after |-> 0, timer |-> 0]

\* The history of a job's running invocation: the ids that were in the
\* chat's set when this or an earlier invocation for the chat started,
\* whether the filter of line 142 dropped a listing, the batches offered to
\* send_message_with_retry so far, the number of bot.send_message calls for
\* the current message (counted up to MaxTries), the chat and message of the
\* last call, those of the last call that failed with a rate limit, the time
\* units slept since that failure (counted up to the cooldown plus one), how
\* the last call ended ("sent", "abandoned", "flood", "raised") and how the
\* invocation ended ("completed", "aborted").
NoHist ==
    [sent_at_start |-> {}, skipped |-> FALSE, calls |-> <<>>, tries |-> 0,
     tried |-> <<>>, flooded |-> <<>>, waited |-> 0, last |-> "none",
     result |-> "none"]

\* a sleep that is not awaited (time.sleep): the sleeping job keeps the loop
HoldsLoopAsleep(job) == job.pc \in {"backoff", "gap"} /\ job.timer > 0

\* Whether a job's coroutine keeps the event loop while it rests at job.pc.
\* A job rests only at an await: of bot.send_message (line 114) or of
\* asyncio.sleep (lines 121 and 154), and an await gives the loop back.
HoldsLoop(job) == FALSE

\* the event loop can run a step of job j: no other coroutine keeps it
LoopFree(j) == \A k \in Jobs \ {j} : ~HoldsLoop(jobs[k])

\* the companies of d that are not in order yet, appended to it
RECURSIVE FirstSeen(_, _)
FirstSeen(order, d) ==
    IF d = <<>> THEN order
    ELSE IF \E k \in 1..Len(order) : order[k] = Head(d).company
         THEN FirstSeen(order, Tail(d))
         ELSE FirstSeen(Append(order, Head(d).company), Tail(d))

\* the entry into the for loop of line 150 or its next iteration: the next
\* batch and its message are built and send_message_with_retry is entered,
\* or the loop and the invocation end
NextBatch(job, h) ==
    IF job.todo = <<>>
    THEN [job |-> [job EXCEPT !.pc = "done"],
          hist |-> [h EXCEPT !.result = "completed"]]
    ELSE LET i == Head(job.todo)
             batch == BatchAt(job.unique_vacancies, i)
         IN  [job |-> [job EXCEPT !.pc = "send", !.i = i, !.todo = Tail(job.todo),
                                  !.message = MessageOf(batch)],
              hist |-> [h EXCEPT !.calls = Append(h.calls, batch), !.tries = 0,
                                 !.tried = <<>>, !.last = "none"]]

\* The timer of job j fires: send_vacancies runs to its first await (lines
\* 131-153); get_vacancies is a blocking call answered by resp.
Fire(j, resp) ==
    /\ jobs[j].chat_id # NoChat
    /\ jobs[j].pc = "idle"
    /\ LoopFree(j)
    /\ LET c == jobs[j].chat_id
           before == IF c \in DOMAIN user_sent_vacancies
                     THEN user_sent_vacancies[c]
                     ELSE {}
           e == EnsureChat(user_sent_vacancies, user_daily_vacancies, c)
           f == get_vacancies(resp)
           early == f.raised \/ FilterRaises(f.vacancies)
           unique == IF early THEN <<>> ELSE FilterNew(f.vacancies, e.sent[c])
           r == RecordAll(unique, e.sent[c], e.daily[c])
           h0 == [NoHist EXCEPT !.sent_at_start = seen_at_start[c] \cup before,
                                !.skipped = ~early /\ Len(unique) < Len(f.vacancies)]
           job0 == [jobs[j] EXCEPT !.unique_vacancies = unique,
                                   !.todo = Range(0, Len(unique), BatchStep)]
           nb == NextBatch(job0, h0)
       IN  /\ user_sent_vacancies' = DictSet(e.sent, c, r.sent)
           /\ user_daily_vacancies' = DictSet(e.daily, c, r.daily)
           /\ first_recorded' =
                [first_recorded EXCEPT ![c] = FirstSeen(first_recorded[c], r.daily)]
           /\ seen_at_start' =
                [seen_at_start EXCEPT ![c] = seen_at_start[c] \cup before]
           /\ offered' = offered
           /\ IF early \/ r.raised
              THEN /\ jobs' = [jobs EXCEPT ![j] = [job0 EXCEPT !.pc = "done", !.todo = <<>>]]
                   /\ hist' = [hist EXCEPT ![j] = [h0 EXCEPT !.result = "aborted"]]
              ELSE /\ jobs' = [jobs EXCEPT ![j] = nb.job]
                   /\ hist' = [hist EXCEPT ![j] = nb.hist]
    /\ UNCHANGED <<fvars, handler, h_log>>

\* One bot.send_message of send_message_with_retry (line 114) and the
\* handling of its outcome (lines 115-124): delivered, or failed with e.
Attempt(j, delivered, e) ==
    /\ jobs[j].pc = "send"
    /\ LoopFree(j)
    /\ LET job == jobs[j]
           h == [hist[j] EXCEPT !.tries = Min(hist[j].tries + 1, MaxTries),
                                !.tried = <<job.chat_id, job.message>>]
       IN  IF delivered
           THEN /\ jobs' = [jobs EXCEPT ![j] = [job EXCEPT !.pc = "gap", !.timer = BatchDelay]]
                /\ hist' = [hist EXCEPT ![j] = [h EXCEPT !.last = "sent"]]
           ELSE IF ~e.flood
           THEN /\ jobs' = [jobs EXCEPT ![j] = [job EXCEPT !.pc = "gap", !.timer = BatchDelay]]
                /\ hist' = [hist EXCEPT ![j] = [h EXCEPT !.last = "abandoned"]]
           ELSE IF ParseRaises(e)
           THEN \* IndexError or ValueError inside the handler: it leaves
                \* send_message_with_retry and is caught at line 156
                /\ jobs' = [jobs EXCEPT ![j] = [job EXCEPT !.pc = "done"]]
                /\ hist' = [hist EXCEPT ![j] = [h EXCEPT !.last = "raised", !.result = "aborted"]]
           ELSE /\ jobs' = [jobs EXCEPT ![j] =
                              [job EXCEPT !.pc = "backoff",
                                          !.retry_after = ParseRetryAfter(e),
                                          !.timer = Backoff(ParseRetryAfter(e))]]
                /\ hist' = [hist EXCEPT ![j] =
                              [h EXCEPT !.waited = 0, !.last = "flood",
                                        !.flooded = <<job.chat_id, job.message>>]]
    /\ UNCHANGED <<fvars, store, handler, h_log, ghosts>>

\* asyncio.sleep is over: after the backoff of line 121 the send is tried
\* again; after the delay of line 154 the for loop goes on
Wake(j) ==
    /\ jobs[j].pc \in {"backoff", "gap"}
    /\ jobs[j].timer = 0
    /\ LoopFree(j)
    /\ IF jobs[j].pc = "backoff"
       THEN /\ jobs' = [jobs EXCEPT ![j].pc = "send"]
            /\ hist' = hist
       ELSE LET nb == NextBatch(jobs[j], hist[j])
            IN  /\ jobs' = [jobs EXCEPT ![j] = nb.job]
                /\ hist' = [hist EXCEPT ![j] = nb.hist]
    /\ UNCHANGED <<fvars, store, handler, h_log, ghosts>>

\* send_vacancies returns (or has logged the exception at line 157)
Return(j) ==
    /\ jobs[j].pc = "done"
    /\ LoopFree(j)
    /\ jobs' = [jobs EXCEPT ![j] = IdleJob(jobs[j].chat_id)]
    /\ hist' = [hist EXCEPT ![j] = NoHist]
    /\ offered' =
         [offered EXCEPT ![jobs[j].chat_id] =
             IF hist[j].calls = <<>>
             THEN @
             ELSE @ \cup {jobs[j].unique_vacancies[k].id :
                            k \in 1..Len(jobs[j].unique_vacancies)}]
    /\ UNCHANGED <<fvars, store, handler, h_log, first_recorded, seen_at_start>>

\* one time unit passes for every sleeping job
Tick ==
    /\ \E j \in Jobs : jobs[j].timer > 0
    /\ jobs' = [j \in Jobs |->
                  IF jobs[j].timer > 0
                  THEN [jobs[j] EXCEPT !.timer = jobs[j].timer - 1]
                  ELSE jobs[j]]
    /\ hist' = [j \in Jobs |->
                  IF jobs[j].pc = "backoff"
                  THEN [hist[j] EXCEPT !.waited =
                            Min(hist[j].waited + 1, MaxRetryAfter + 1)]
                  ELSE hist[j]]
    /\ UNCHANGED <<fvars, store, handler, h_log, ghosts>>

\* ------------------------------------------------------------ the handlers

IdleHandler ==
    [pc |-> "idle", chat_id |-> NoChat, sorted_vacancies |-> <<>>,
     summary_len |-> 0, summary_chunks |-> <<>>, todo |-> <<>>]

\* start: the reply is awaited, then run_repeating adds a job for the chat
\* (line 207), in a free place of slots; when the reply raises, no job is
\* added
Start(c, replied, slots) ==
    /\ handler.pc = "idle"
    /\ \E j \in slots : jobs[j].chat_id = NoChat
    /\ IF replied
       THEN LET j == CHOOSE x \in slots : jobs[x].chat_id = NoChat
            IN  jobs' = [jobs EXCEPT ![j] = IdleJob(c)]
       ELSE jobs' = jobs
    /\ UNCHANGED <<fvars, store, hist, handler, h_log, ghosts>>

\* an initialisation without the test of line 167
EnsureDailyAlways(daily, c) == DictSet(daily, c, <<>>)

\* lines 167-168: the chat's dict of counts is created when
\* user_daily_vacancies has no key for the chat
EnsureDaily(daily, c) ==
    IF c \in DOMAIN daily THEN daily ELSE DictSet(daily, c, <<>>)

\* daily_summary_command up to its first await (lines 164-187)
Summary(c) ==
    /\ handler.pc = "idle"
    /\ LET daily == EnsureDaily(user_daily_vacancies, c)
           sv == SortedVacancies(daily[c])
           len == SummaryLen(sv)
           chunks == SummaryChunks(len)
       IN  /\ user_daily_vacancies' = daily
           /\ handler' = [pc |-> "sending", chat_id |-> c, sorted_vacancies |-> sv,
                          summary_len |-> len, summary_chunks |-> chunks,
                          todo |-> Range(1, Len(chunks) + 1, 1)]
    /\ h_log' = <<>>
    /\ UNCHANGED <<fvars, user_sent_vacancies, jobs, hist, ghosts>>

\* a loop that a failed send does not leave
SummaryGoesOnAnyway(delivered, rest) == rest # <<>>

\* whether the loop of lines 186-187 goes on after a send: the try of line
\* 185 is around the whole loop, so a failure leaves it
SummaryGoesOn(delivered, rest) == delivered /\ rest # <<>>

\* one bot.send_message of the loop of lines 186-187, and the except of line
\* 188 when it fails
SummarySend(delivered) ==
    /\ handler.pc = "sending"
    /\ h_log' = Append(h_log, <<Head(handler.todo), delivered>>)
    /\ IF SummaryGoesOn(delivered, Tail(handler.todo))
       THEN handler' = [handler EXCEPT !.todo = Tail(handler.todo)]
       ELSE handler' = [handler EXCEPT !.pc = "done"]
    /\ UNCHANGED <<fvars, store, jobs, hist, ghosts>>

\* daily_summary_command returns
SummaryReturn ==
    /\ handler.pc = "done"
    /\ handler' = IdleHandler
    /\ h_log' = <<>>
    /\ UNCHANGED <<fvars, store, jobs, hist, ghosts>>

\* ------------------------------------------------------------ specifications

InitStore ==
    /\ user_sent_vacancies = <<>>
    /\ user_daily_vacancies = <<>>
    /\ jobs = [j \in Jobs |-> IdleJob(NoChat)]
    /\ hist = [j \in Jobs |-> NoHist]
    /\ handler = IdleHandler
    /\ h_log = <<>>
    /\ first_recorded = [c \in Chats |-> <<>>]
    /\ seen_at_start = [c \in Chats |-> {}]
    /\ offered = [c \in Chats |-> {}]

InitFetch ==
    /\ f_pc = "idle"
    /\ page = 0
    /\ vacancies = <<>>
    /\ fetched = <<>>
    /\ requests = <<>>
    /\ InitStore

\* ------------------------------------------------------------ sources
\* the sequences of at most two elements of S
UpToTwo(S) == {<<>>} \cup {<<a>> : a \in S} \cup {<<a, b>> : a, b \in S}

\* listings 1..NumIds, one without id, one whose employer is null, one
\* without employer
SmallListings ==
    {Listing(id) : id \in 1..NumIds}
    \cup {[id |-> NoId, employer |-> EmployerOf(1)],
          [id |-> NumIds + 1, employer |-> EmployerNull],
          [id |-> NumIds + 1, employer |-> EmployerAbsent]}

SmallPages ==
    {TransportFailure, BrokenBody}
    \cup {PageOf(p) : p \in UpToTwo(SmallListings)}

\* pages of listings that all have an id and an employer
WellFormedPages == {PageOf(p) : p \in UpToTwo({Listing(id) : id \in 1..NumIds})}

\* the listings of SmallListings, one per page
SinglePages == {PageOf(<<a>>) : a \in SmallListings}

\* the listings a..b in order
RunOf(a, b) == [k \in 1..(b - a + 1) |-> Listing(a + k - 1)]

LongPages == {PageOf(RunOf(1, n)) : n \in 0..LongIds}

NoError == SendError(FALSE, "none", 0)

SendErrors ==
    {SendError(FALSE, "none", 0), SendError(FALSE, "int", 1),
     SendError(TRUE, "none", 0), SendError(TRUE, "bad", 0)}
    \cup {SendError(TRUE, "int", n) : n \in {1, MaxRetryAfter}}

Init == InitFetch

\* The delivery of one chat with one job: any page of the small source, any
\* outcome of a send.
Next ==
    \/ \E replied \in BOOLEAN : Start("c1", replied, {"j1"})
    \/ \E resp \in SmallPages : Fire("j1", resp)
    \/ Attempt("j1", TRUE, NoError)
    \/ \E e \in SendErrors : Attempt("j1", FALSE, e)
    \/ Wake("j1")
    \/ Return("j1")
    \/ Tick

Spec == Init /\ [][Next]_vars

\* The same against a source all of whose listings are well formed and whose
\* requests all succeed: no invocation is aborted.
NextWellFormed ==
    \/ \E replied \in BOOLEAN : Start("c1", replied, {"j1"})
    \/ \E resp \in WellFormedPages : Fire("j1", resp)
    \/ Attempt("j1", TRUE, NoError)
    \/ \E e \in SendErrors : Attempt("j1", FALSE, e)
    \/ Wake("j1")
    \/ Return("j1")
    \/ Tick

SpecWellFormed == Init /\ [][NextWellFormed]_vars

\* The summary of one chat, asked for at any moment of the chat's
\* deliveries (whose sends all succeed).
NextSummary ==
    \/ \E replied \in BOOLEAN : Start("c1", replied, {"j1"})
    \/ \E resp \in SinglePages : Fire("j1", resp)
    \/ Attempt("j1", TRUE, NoError)
    \/ Wake("j1")
    \/ Return("j1")
    \/ Tick
    \/ Summary("c1")
    \/ \E delivered \in BOOLEAN : SummarySend(delivered)
    \/ SummaryReturn

SpecSummary == Init /\ [][NextSummary]_vars

\* one chat with one job, against a source that grows by whole runs
NextBatches ==
    \/ \E replied \in BOOLEAN : Start("c1", replied, {"j1"})
    \/ \E resp \in LongPages : Fire("j1", resp)
    \/ Attempt("j1", TRUE, NoError)
    \/ \E e \in SendErrors : Attempt("j1", FALSE, e)
    \/ Wake("j1")
    \/ Return("j1")
    \/ Tick

SpecBatch == Init /\ [][NextBatches]_vars

\* The same under the event loop's scheduling: time passes, a coroutine
\* whose sleep is over is resumed, and an awaited send is answered.
AnyAttempt(j) ==
    \/ Attempt(j, TRUE, NoError)
    \/ \E e \in SendErrors : Attempt(j, FALSE, e)

SpecRetry ==
    /\ Init
    /\ [][NextBatches]_vars
    /\ WF_vars(Tick)
    /\ WF_vars(Wake("j1"))
    /\ WF_vars(AnyAttempt("j1"))

\* Two chats, each with its job: the sends of c1 succeed or fail with a
\* rate limit, those of c2 succeed or fail otherwise.
TwoPages == {PageOf(RunOf(1, n)) : n \in {1, BatchStep + 1}}

FloodError == SendError(TRUE, "int", 1)

NextTwoJobs ==
    \/ Start("c1", TRUE, {"j1"})
    \/ Start("c2", TRUE, {"j2"})
    \/ \E resp \in TwoPages : Fire("j1", resp)
    \/ \E resp \in TwoPages : Fire("j2", resp)
    \/ Attempt("j1", TRUE, NoError)
    \/ Attempt("j1", FALSE, FloodError)
    \/ Attempt("j2", TRUE, NoError)
    \/ Attempt("j2", FALSE, NoError)
    \/ Wake("j1")
    \/ Wake("j2")
    \/ Return("j1")
    \/ Return("j2")
    \/ Tick

\* Under the scheduling of the job queue and the event loop for c2: its job
\* is fired, time passes, a coroutine whose sleep is over is resumed, an
\* awaited send is answered. Nothing is assumed of c1.
SpecTwoJobs ==
    /\ Init
    /\ [][NextTwoJobs]_vars
    /\ WF_vars(Tick)
    /\ WF_vars(\E resp \in TwoPages : Fire("j2", resp))
    /\ WF_vars(Attempt("j2", TRUE, NoError) \/ Attempt("j2", FALSE, NoError))
    /\ WF_vars(Wake("j2"))

\* the two chats and the summary of either, asked for at any moment
NextTwoChats ==
    \/ NextTwoJobs
    \/ \E c \in Chats : Summary(c)
    \/ \E delivered \in BOOLEAN : SummarySend(delivered)
    \/ SummaryReturn

SpecTwoChats == Init /\ [][NextTwoChats]_vars

\* One chat registered twice (two /start): two jobs for the same chat, whose
\* invocations overlap at their awaits, against a source of two listings.
OverlapPages == {PageOf(p) : p \in UpToTwo({Listing(1), Listing(2)})}

NextOverlap ==
    \/ Start("c1", TRUE, Jobs)
    \/ \E j \in Jobs : \E resp \in OverlapPages : Fire(j, resp)
    \/ \E j \in Jobs : Attempt(j, TRUE, NoError)
    \/ \E j \in Jobs : Attempt(j, FALSE, FloodError)
    \/ \E j \in Jobs : Wake(j)
    \/ \E j \in Jobs : Return(j)
    \/ Tick

SpecOverlap == Init /\ [][NextOverlap]_vars

\* The formatting of one collected listing with any salary (lines 151-152).
SalaryBounds == {SalaryAbsent, SalaryNull} \cup (0..MaxSalary)

SalaryListings ==
    {Listing(1)}
    \cup {[id |-> 1, employer |-> EmployerOf(1), salary |-> NullSalary]}
    \cup {[id |-> 1, employer |-> EmployerOf(1), salary |-> SalaryDict(a, b)] :
             a, b \in SalaryBounds}

InitFormat ==
    /\ f_pc = "idle"
    /\ page = 0
    /\ vacancies = <<>>
    /\ fetched = <<>>
    /\ requests = <<>>
    /\ user_sent_vacancies = <<>>
    /\ user_daily_vacancies = <<>>
    /\ \E v \in SalaryListings :
         jobs = [j \in Jobs |->
                   IF j = "j1"
                   THEN [IdleJob("c1") EXCEPT !.pc = "collected",
                                              !.unique_vacancies = <<v>>]
                   ELSE IdleJob(NoChat)]
    /\ hist = [j \in Jobs |-> NoHist]
    /\ handler = IdleHandler
    /\ h_log = <<>>
    /\ first_recorded = [c \in Chats |-> <<>>]
    /\ seen_at_start = [c \in Chats |-> {}]
    /\ offered = [c \in Chats |-> {}]

Format(j) ==
    /\ jobs[j].pc = "collected"
    /\ jobs' = [jobs EXCEPT ![j].pc = "formatted",
                            ![j].message = MessageOf(BatchAt(jobs[j].unique_vacancies, 0))]
    /\ UNCHANGED <<fvars, store, hist, handler, h_log, ghosts>>

NextFormat == Format("j1")

SpecFormat == InitFormat /\ [][NextFormat]_vars

\* The split of a summary text of any length (lines 182-183), the text
\* being built.
InitChunk ==
    /\ f_pc = "idle"
    /\ page = 0
    /\ vacancies = <<>>
    /\ fetched = <<>>
    /\ requests = <<>>
    /\ user_sent_vacancies = <<>>
    /\ user_daily_vacancies = <<>>
    /\ jobs = [j \in Jobs |-> IdleJob(NoChat)]
    /\ hist = [j \in Jobs |-> NoHist]
    /\ \E len \in 1..MaxSummaryLen :
         handler = [IdleHandler EXCEPT !.pc = "built", !.chat_id = "c1",
                                       !.summary_len = len]
    /\ h_log = <<>>
    /\ first_recorded = [c \in Chats |-> <<>>]
    /\ seen_at_start = [c \in Chats |-> {}]
    /\ offered = [c \in Chats |-> {}]

Split ==
    /\ handler.pc = "built"
    /\ handler' = [handler EXCEPT !.pc = "split",
                                  !.summary_chunks = SummaryChunks(handler.summary_len)]
    /\ UNCHANGED <<fvars, store, jobs, hist, h_log, ghosts>>

NextChunk == Split

SpecChunk == InitChunk /\ [][NextChunk]_vars

NextFetch ==
    \/ FetchCall
    \/ FetchPage

SpecFetch == InitFetch /\ [][NextFetch]_vars

\* ------------------------------------------------------------ properties

\* the ids of a sequence of listings
IdsOf(vs) == {vs[k].id : k \in 1..Len(vs)}

\* the place of x in the sequence s (0: not in it)
PlaceIn(s, x) == IF \E k \in 1..Len(s) : s[k] = x
                 THEN CHOOSE k \in 1..Len(s) : s[k] = x
                 ELSE 0

\* C1: a listing id that was in the chat's sent set when an invocation of
\* send_vacancies started is not among the listings that this invocation, or
\* any later one for the chat, collects, formats or hands to the sender.
NoResend ==
    \A j \in Jobs :
        /\ IdsOf(jobs[j].unique_vacancies) \cap hist[j].sent_at_start = {}
        /\ \A b \in 1..Len(hist[j].calls) :
               IdsOf(hist[j].calls[b]) \cap hist[j].sent_at_start = {}
        /\ \A k \in 1..Len(jobs[j].message) :
               jobs[j].message[k].of \notin hist[j].sent_at_start

\* an invocation whose fetch held a listing already sent, which the filter
\* dropped, is sending a new one
NoResendWitness ==
    \E j \in Jobs :
        /\ jobs[j].pc = "send"
        /\ hist[j].skipped
        /\ hist[j].sent_at_start # {}
        /\ Len(hist[j].calls) >= 1

\* C2: for every chat, the counts of user_daily_vacancies add up to the
\* number of ids in user_sent_vacancies.
CountsEqualSent ==
    \A c \in DOMAIN user_sent_vacancies :
        SumCounts(user_daily_vacancies[c]) = Cardinality(user_sent_vacancies[c])

\* C3: within one invocation a listing is collected and counted only if its
\* id is not present at that moment: of two listings of the same id in one
\* fetch only the first is collected, so the collected ids are distinct.
OnlyFirstOccurrence ==
    \A j \in Jobs :
        \A a, b \in 1..Len(jobs[j].unique_vacancies) :
            a # b => jobs[j].unique_vacancies[a].id # jobs[j].unique_vacancies[b].id

\* C5: a send failure that is not a rate limit with a readable cooldown
\* raises nothing to send_vacancies, and the invocation goes on to hand every
\* batch to the sender.
FailureNeverEscapes ==
    \A j \in Jobs :
        /\ hist[j].last # "raised"
        /\ jobs[j].pc = "done" =>
              Len(hist[j].calls) = Len(Range(0, Len(jobs[j].unique_vacancies), BatchStep))

\* C6: about to send again after a rate-limit failure with cooldown
\* retry_after, the sender has slept at least retry_after + 1 time units and
\* sends to the same chat the same message; and after such a failure the
\* next send of that message does happen.
RetryIsLate ==
    \A j \in Jobs :
        (jobs[j].pc = "send" /\ hist[j].last = "flood") =>
            /\ hist[j].waited >= jobs[j].retry_after + 1
            /\ hist[j].flooded = <<jobs[j].chat_id, jobs[j].message>>

RetryAfterBackoff ==
    /\ []RetryIsLate
    /\ \A j \in Jobs : \A k \in 1..(MaxTries - 1) :
         (jobs[j].pc = "backoff" /\ hist[j].tries = k)
             ~> (hist[j].tries = k + 1 /\ hist[j].tried = hist[j].flooded)

\* a message was delivered at its second send, after a rate-limit failure
\* with the largest cooldown and a sleep of that plus one
RetryWitness ==
    \E j \in Jobs :
        /\ hist[j].tries = 2
        /\ hist[j].last = "sent"
        /\ jobs[j].retry_after = MaxRetryAfter
        /\ hist[j].waited = MaxRetryAfter + 1
        /\ hist[j].tried = hist[j].flooded

\* C7: the batches offered to the sender are the slices of five of the
\* collected listings, in order (batch k holds the listings at 5(k-1) ..
\* 5(k-1)+4, the last one what is left), and an invocation that completes
\* has offered ceil(n/5) of them for n collected listings.
BatchesOfFive ==
    \A j \in Jobs :
        LET u == jobs[j].unique_vacancies
            n == Len(u)
            m == Len(hist[j].calls)
        IN  /\ \A k \in 1..m :
                   /\ 5 * (k - 1) < n
                   /\ hist[j].calls[k] =
                          [x \in 1..Min(5, n - 5 * (k - 1)) |-> u[5 * (k - 1) + x]]
            /\ hist[j].result = "completed" => m = (n + 4) \div 5

\* an invocation that collected 7 listings has completed after two sends,
\* of 5 and of 2
BatchesWitness ==
    \E j \in Jobs :
        /\ hist[j].result = "completed"
        /\ Len(jobs[j].unique_vacancies) = 7
        /\ Len(hist[j].calls) = 2
        /\ Len(hist[j].calls[1]) = 5
        /\ Len(hist[j].calls[2]) = 2

\* C8 as stated: when daily_summary_command is over, a send was made for
\* every chunk of the summary.
AllChunksAttempted ==
    handler.pc = "done" => Len(h_log) = Len(handler.summary_chunks)

\* C8 as amended: the sends of a summary are those of its chunks 1, 2, ...
\* in order up to the first one that fails; no chunk after a failed one is
\* sent, and without a failure all are.
SummaryStopsAtFailure ==
    handler.pc \in {"sending", "done"} =>
        LET m == Len(h_log)
            n == Len(handler.summary_chunks)
        IN  /\ m <= n
            /\ \A k \in 1..m : h_log[k][1] = k
            /\ \A k \in 1..(m - 1) : h_log[k][2]
            /\ handler.pc = "sending" => m < n /\ (m >= 1 => h_log[m][2])
            /\ handler.pc = "done" => m >= 1 /\ (m = n \/ ~h_log[m][2])

\* a summary of several chunks is over after a failed send, with a chunk
\* never sent
SummaryStopsWitness ==
    /\ handler.pc = "done"
    /\ Len(handler.summary_chunks) >= 2
    /\ Len(h_log) < Len(handler.summary_chunks)
    /\ ~h_log[Len(h_log)][2]

\* C9: a summary text of length len is split into ceil(len/4000) slices,
\* each starting where the one before ends, the first at 0 and the last
\* ending at len; all but the last hold 4000 characters and the last the
\* rest.
ChunksCoverText ==
    handler.pc \in {"split", "sending", "done"} =>
        LET len == handler.summary_len
            ch == handler.summary_chunks
            n == (len + 3999) \div 4000
        IN  /\ Len(ch) = n
            /\ \A k \in 1..Len(ch) :
                   /\ ch[k][1] = 4000 * (k - 1)
                   /\ ch[k][2] = IF k < n THEN 4000 * k ELSE len
                   /\ ch[k][2] - ch[k][1] >= 1
                   /\ ch[k][2] - ch[k][1] <= 4000

\* a text of 8500 characters is split into 4000, 4000 and 500
ChunksWitness ==
    /\ handler.pc = "split"
    /\ handler.summary_len = 8500
    /\ handler.summary_chunks = <<<<0, 4000>>, <<4000, 8000>>, <<8000, 8500>>>>

\* C10: the summary lists the chat's companies, each once, by count from
\* the largest down, and companies of equal count in the order of their
\* first recording for the chat.
SummaryOrder ==
    handler.pc \in {"sending", "done"} =>
        LET sv == handler.sorted_vacancies
            order == first_recorded[handler.chat_id]
        IN  /\ \A a, b \in 1..Len(sv) :
                   a < b =>
                       /\ sv[a].count >= sv[b].count
                       /\ sv[a].company # sv[b].company
                       /\ sv[a].count = sv[b].count =>
                              PlaceIn(order, sv[a].company) < PlaceIn(order, sv[b].company)
            /\ \A a \in 1..Len(sv) : PlaceIn(order, sv[a].company) > 0

\* a summary of three companies, two of them of equal count, whose first
\* company was not the first recorded
SummaryOrderWitness ==
    /\ handler.pc = "sending"
    /\ Len(handler.sorted_vacancies) = 3
    /\ handler.sorted_vacancies[1].count = 2
    /\ handler.sorted_vacancies[2].count = 1
    /\ handler.sorted_vacancies[3].count = 1
    /\ first_recorded[handler.chat_id][1] # handler.sorted_vacancies[1].company

RECURSIVE Gathered(_, _)
Gathered(reqs, n) ==
    IF n = 0 THEN <<>>
    ELSE Gathered(reqs, n - 1) \o ItemsOfPage(reqs[n][1], reqs[n][3])

\* the number of those items
RECURSIVE GatheredLen(_, _)
GatheredLen(reqs, n) ==
    IF n = 0 THEN 0 ELSE GatheredLen(reqs, n - 1) + reqs[n][3]

\* C11: when the request of page k fails at transport level, get_vacancies
\* raises nothing, makes no further request, and returns the items of pages
\* 0..k-1 in order (none when k = 0), cut to VACANCY_LIMIT.
TransportFailureEndsFetch ==
    \A i \in 1..Len(requests) :
        requests[i][2] = "transport" =>
            /\ i = Len(requests)
            /\ requests[i][1] = i - 1
            /\ f_pc = "returned"
            /\ fetched = Slice(Gathered(requests, i - 1), 0, VACANCY_LIMIT)

\* the request of page 2 failed after two full pages: the fetch returned
\* their 198 items
TransportFailureWitness ==
    /\ f_pc = "returned"
    /\ Len(requests) = 3
    /\ requests[3] = <<2, "transport", 0>>
    /\ Len(fetched) = 2 * PageFull
    /\ fetched[PageFull + 1] = <<1, 1>>

\* C18: the requests of a fetch are those of pages 0, 1, 2, ... in order, at
\* most 21 of them; while every request is answered with a page, a page of
\* fewer than 99 items or one that brings the gathered items to
\* VACANCY_LIMIT or more is the last one requested and no other is; the
\* fetch then returns the items of all pages requested, in order, cut to the
\* first VACANCY_LIMIT.
FetchStopsAtLastPage ==
    LET n == Len(requests)
        Answered(i) == \A k \in 1..i : requests[k][2] = "ok"
        Last(i) == \/ requests[i][3] < PageFull
                   \/ GatheredLen(requests, i) >= VACANCY_LIMIT
    IN  /\ n <= 21
        /\ \A i \in 1..n : requests[i][1] = i - 1
        /\ \A i \in 1..n : Answered(i) /\ Last(i) => i = n /\ f_pc = "returned"
        /\ (f_pc = "returned" /\ Answered(n)) =>
               /\ n >= 1
               /\ Last(n)
               /\ fetched = Slice(Gathered(requests, n), 0, VACANCY_LIMIT)
        /\ (f_pc = "loop" /\ Answered(n)) => page = n

\* a fetch of 21 pages of 99 items has returned the first 2000 of its 2079
\* items
FetchStopsWitness ==
    /\ f_pc = "returned"
    /\ Len(requests) = 21
    /\ \A i \in 1..21 : requests[i] = <<i - 1, "ok", PageFull>>
    /\ Len(fetched) = VACANCY_LIMIT
    /\ fetched[VACANCY_LIMIT] = <<20, 20>>

\* the sender of job j is retrying after a rate limit: asleep, or about to
\* send again
Retrying(j) ==
    \/ jobs[j].pc = "backoff"
    \/ jobs[j].pc = "send" /\ hist[j].last = "flood"

\* the step of its invocation that job j is at can be taken
CanStep(j) ==
    /\ jobs[j].pc = "idle" => ENABLED (\E resp \in TwoPages : Fire(j, resp))
    /\ jobs[j].pc = "send" =>
          ENABLED Attempt(j, TRUE, NoError) /\ ENABLED Attempt(j, FALSE, NoError)
    /\ (jobs[j].pc \in {"backoff", "gap"} /\ jobs[j].timer = 0) => ENABLED Wake(j)
    /\ jobs[j].pc = "done" => ENABLED Return(j)

OthersCanStep ==
    \A a, b \in Jobs :
        (/\ jobs[a].chat_id # NoChat
         /\ jobs[b].chat_id # NoChat
         /\ jobs[a].chat_id # jobs[b].chat_id
         /\ Retrying(a)) => CanStep(b)

\* C12: while the sender of one chat is asleep after a rate limit or
\* retrying, however long, every step of the invocations of another chat
\* (start, record, send, resume, return) can be taken; and under the
\* scheduling of the job queue and the event loop the other chat's delivery
\* completes.
DeliveryNotStarved ==
    /\ []OthersCanStep
    /\ (jobs["j2"].chat_id = "c2") ~>
           (jobs["j2"].pc = "done" /\ hist["j2"].result = "completed")

\* c1 is asleep after at least MaxTries rate-limit failures of its first
\* message while c2 has completed a delivery of two batches
NotStarvedWitness ==
    /\ jobs["j1"].pc = "backoff"
    /\ jobs["j1"].timer > 0
    /\ hist["j1"].tries = MaxTries
    /\ Len(hist["j1"].calls) = 1
    /\ jobs["j2"].pc = "done"
    /\ hist["j2"].result = "completed"
    /\ Len(hist["j2"].calls) = 2

\* the step is part of an operation for chat a: a job of a or the summary
\* handler of a moves
OperationOf(a) ==
    \/ \E j \in Jobs : jobs[j].chat_id = a /\ jobs'[j] # jobs[j]
    \/ handler' # handler /\ (handler.chat_id = a \/ handler'.chat_id = a)

\* the step leaves what the two dicts hold for chat b as it is
SameFor(b) ==
    /\ (b \in DOMAIN user_sent_vacancies') = (b \in DOMAIN user_sent_vacancies)
    /\ b \in DOMAIN user_sent_vacancies =>
          user_sent_vacancies'[b] = user_sent_vacancies[b]
    /\ (b \in DOMAIN user_daily_vacancies') = (b \in DOMAIN user_daily_vacancies)
    /\ b \in DOMAIN user_daily_vacancies =>
          user_daily_vacancies'[b] = user_daily_vacancies[b]

\* C14: a step of an operation for chat a (an invocation of send_vacancies,
\* a send or a retry of it, a summary) leaves the sent ids and the counts of
\* every other chat unchanged, in every interleaving.
OtherChatsUntouched ==
    [][\A a \in Chats : OperationOf(a) => \A b \in Chats \ {a} : SameFor(b)]_vars

\* both chats hold data, of different ids, both deliveries are under way
\* and a summary is being sent
TwoChatsWitness ==
    /\ DOMAIN user_sent_vacancies = Chats
    /\ Cardinality(user_sent_vacancies["c1"]) = 1
    /\ Cardinality(user_sent_vacancies["c2"]) = BatchStep + 1
    /\ jobs["j1"].pc = "backoff"
    /\ jobs["j2"].pc = "send"
    /\ handler.pc = "sending"
    /\ handler.chat_id = "c2"

\* the count of company in the dict d (0: no entry)
CountIn(d, company) ==
    IF \E k \in 1..Len(d) : d[k].company = company
    THEN d[CHOOSE k \in 1..Len(d) : d[k].company = company].count
    ELSE 0

\* the step keeps every sent id and every company's count of chat c
KeepsChat(c) ==
    /\ c \in DOMAIN user_sent_vacancies =>
          /\ c \in DOMAIN user_sent_vacancies'
          /\ user_sent_vacancies[c] \subseteq user_sent_vacancies'[c]
    /\ c \in DOMAIN user_daily_vacancies =>
          /\ c \in DOMAIN user_daily_vacancies'
          /\ \A k \in 1..Len(user_daily_vacancies[c]) :
                 CountIn(user_daily_vacancies'[c], user_daily_vacancies[c][k].company)
                     >= user_daily_vacancies[c][k].count

\* C13: no step of a delivery, an aborted delivery, a summary or the
\* creation of a chat's entries in either of them takes an id out of a
\* chat's sent ids or lowers or drops the count of a company: in particular
\* the creation never empties entries that hold data.
StoreOnlyGrows == [][\A c \in Chats : KeepsChat(c)]_vars

\* a chat that holds two ids and a count of two has had an invocation
\* aborted after one that started on its data, while its summary is sent
StoreGrowsWitness ==
    /\ handler.pc = "sending"
    /\ handler.chat_id = "c1"
    /\ jobs["j1"].pc = "done"
    /\ hist["j1"].result = "aborted"
    /\ seen_at_start["c1"] # {}
    /\ Cardinality(user_sent_vacancies["c1"]) >= 2
    /\ SumCounts(user_daily_vacancies["c1"]) >= 2

\* C15: the sender's loop for a message ends only by a delivery or by a
\* failure that is not a rate limit (rate-limit failures, however many, are
\* followed by another send), and an invocation that collected n listings
\* ends only after ceil(n/5) batches were offered to the sender.
SenderEndsByOutcome ==
    \A j \in Jobs :
        LET n == Len(jobs[j].unique_vacancies)
            m == Len(hist[j].calls)
        IN  /\ (jobs[j].pc \in {"gap", "done"} /\ m >= 1) =>
                   hist[j].last \in {"sent", "abandoned"}
            /\ jobs[j].pc = "done" => m = (n + BatchStep - 1) \div BatchStep

\* the bound `key` of a listing's salary is missing: no salary, a null
\* salary, or a salary whose key is missing or null
MissingBound(v, key) ==
    \/ "salary" \notin DOMAIN v
    \/ v.salary.null
    \/ v.salary[key] \in {SalaryAbsent, SalaryNull}

\* C16: format_vacancy renders each missing bound of a listing's salary
\* (no salary, a null salary, a bound missing or null) as the placeholder.
MissingSalaryAsPlaceholder ==
    \A j \in Jobs :
        jobs[j].pc = "formatted" =>
            LET v == jobs[j].unique_vacancies[1]
                t == jobs[j].message[1]
            IN  /\ MissingBound(v, "from") => t.salary_from = SalaryPlaceholder
                /\ MissingBound(v, "to") => t.salary_to = SalaryPlaceholder

\* C17: when an invocation was aborted while its listings were processed,
\* every id it added to the chat's sent ids has its company counted: the
\* chat's counts add up to the number of its sent ids.
AbortLeavesCountsWhole ==
    \A j \in Jobs :
        (jobs[j].pc = "done" /\ hist[j].result = "aborted") =>
            LET c == jobs[j].chat_id
            IN  /\ c \in DOMAIN user_sent_vacancies
                /\ c \in DOMAIN user_daily_vacancies
                /\ SumCounts(user_daily_vacancies[c]) =
                       Cardinality(user_sent_vacancies[c])

\* the ids a job's invocation has handed to the sender so far
HandedBy(j) == UNION {IdsOf(hist[j].calls[b]) : b \in 1..Len(hist[j].calls)}

\* C19: from the first send of an invocation on, the ids of all the
\* listings it collected are in the chat's sent ids, whatever the sends'
\* outcomes; the ids of the listings of earlier invocations' batches (sent,
\* given up, or never handed over after an abort) stay there, and none of
\* them is handed to the sender again: a listing is offered in at most one
\* invocation.
OfferedOnce ==
    \A j \in Jobs :
        LET c == jobs[j].chat_id
            sentIds == IF c \in DOMAIN user_sent_vacancies
                       THEN user_sent_vacancies[c]
                       ELSE {}
        IN  /\ hist[j].calls # <<>> => IdsOf(jobs[j].unique_vacancies) \subseteq sentIds
            /\ c # NoChat => offered[c] \subseteq sentIds
            /\ c # NoChat => HandedBy(j) \cap offered[c] = {}

\* an invocation that collected more than one batch was aborted after its
\* first send, the others never handed over, all its ids in the sent set;
\* its fetch held listings of an earlier invocation, which it dropped
OfferedOnceWitness ==
    \E j \in Jobs :
        /\ jobs[j].pc = "done"
        /\ hist[j].result = "aborted"
        /\ Len(jobs[j].unique_vacancies) > BatchStep
        /\ Len(hist[j].calls) = 1
        /\ hist[j].skipped
        /\ offered[jobs[j].chat_id] # {}
        /\ IdsOf(jobs[j].unique_vacancies) \subseteq user_sent_vacancies[jobs[j].chat_id]

\* C20: while two invocations for the same chat are both under way, each
\* at an await of a send or of a sleep, no id
\* has been handed to the sender by both, and the chat's counts add up to
\* the number of its sent ids.
OverlapKeepsStore ==
    \A a, b \in Jobs :
        (/\ a # b
         /\ jobs[a].chat_id # NoChat
         /\ jobs[a].chat_id = jobs[b].chat_id
         /\ jobs[a].pc \in {"send", "backoff", "gap"}
         /\ jobs[b].pc \in {"send", "backoff", "gap"}) =>
            LET c == jobs[a].chat_id
            IN  /\ HandedBy(a) \cap HandedBy(b) = {}
                /\ SumCounts(user_daily_vacancies[c]) =
                       Cardinality(user_sent_vacancies[c])

====
